---- MODULE Spec2Model ----
(***************************************************************************)
(* TerminalMind (src/llm_terminal.py): a natural-language task is turned   *)
(* into a shell command by a language model, optionally reviewed by the    *)
(* user, executed, and chained through follow-up suggestions.              *)
(*                                                                         *)
(* Strings are sequences of one-character strings.  None of Python is the  *)
(* one-element sequence None, which no character string equals.            *)
(***************************************************************************)
EXTENDS Integers, Sequences, FiniteSets, TLC

(***************************************************************************)
(* Bounds of the model.                                                    *)
(***************************************************************************)
\* longest input string of the pure-function specifications
MaxLen == 3
\* chained executions the environment lets one top-level task reach
MaxChain == 2
\* top-level tasks the user enters in one session
MaxTasks == 1

(***************************************************************************)
(* Strings.                                                                *)
(***************************************************************************)
None == <<"<None>">>

\* the backtick character (the TLA+ lexer admits no backtick in a literal)
Backtick == "BACKTICK"

\* the characters the pure-function inputs are built from
Alphabet == {"$", "(", Backtick, "\n", " ", "a"}

\* the characters str.strip() removes (those that occur here)
Whitespace == {" ", "\n", "\t"}

RECURSIVE StringsOfLen(_)
StringsOfLen(n) ==
    IF n = 0 THEN {<<>>}
    ELSE {<<c>> \o s : c \in Alphabet, s \in StringsOfLen(n - 1)}

Strings == UNION {StringsOfLen(n) : n \in 0..MaxLen}

\* b occurs in s as a contiguous substring
Contains(s, b) ==
    \E i \in 1..(Len(s) - Len(b) + 1) : SubSeq(s, i, i + Len(b) - 1) = b

\* str.replace(old, new) for a one-character or two-character old:
\* leftmost, non-overlapping occurrences, one pass
RECURSIVE Replace(_, _, _)
Replace(s, old, new) ==
    IF Len(s) < Len(old) THEN s
    ELSE IF SubSeq(s, 1, Len(old)) = old
         THEN new \o Replace(SubSeq(s, Len(old) + 1, Len(s)), old, new)
         ELSE <<s[1]>> \o Replace(Tail(s), old, new)

RECURSIVE LStrip(_, _)
LStrip(s, chars) ==
    IF s # <<>> /\ s[1] \in chars THEN LStrip(Tail(s), chars) ELSE s

RECURSIVE RStrip(_, _)
RStrip(s, chars) ==
    IF s # <<>> /\ s[Len(s)] \in chars
    THEN RStrip(SubSeq(s, 1, Len(s) - 1), chars) ELSE s

\* str.strip(chars)
StripChars(s, chars) == RStrip(LStrip(s, chars), chars)

\* str.strip()
Strip(s) == StripChars(s, Whitespace)

\* Python truthiness of an Optional[str]
Truthy(s) == s # None /\ s # <<>>

(***************************************************************************)
(* CommandProcessor.sanitize_command                                       *)
(***************************************************************************)
sanitize_command(command) ==
    Strip(Replace(Replace(Replace(command, <<"$", "(">>, <<>>),
                          <<Backtick>>, <<>>),
                  <<"\n">>, <<" ">>))

(***************************************************************************)
(* The string literals of the program.                                     *)
(***************************************************************************)
\* "Empty command" (line 91)
EmptyCommandMessage ==
    <<"E", "m", "p", "t", "y", " ", "c", "o", "m", "m", "a", "n", "d">>

\* "Error: " of f"Error: {e.stderr.strip()}" (line 105)
ErrorPrefix == <<"E", "r", "r", "o", "r", ":", " ">>

\* "Command timed out after 30 seconds" (line 107)
TimedOutMessage ==
    <<"C", "o", "m", "m", "a", "n", "d", " ", "t", "i", "m", "e", "d", " ",
      "o", "u", "t", " ", "a", "f", "t", "e", "r", " ", "3", "0", " ",
      "s", "e", "c", "o", "n", "d", "s">>

\* "Unexpected error: " of f"Unexpected error: {str(e)}" (line 109)
UnexpectedPrefix ==
    <<"U", "n", "e", "x", "p", "e", "c", "t", "e", "d", " ",
      "e", "r", "r", "o", "r", ":", " ">>

\* "DONE" (line 221)
DONE == <<"D", "O", "N", "E">>

\* "Continue with: " of f"Continue with: {follow_up}" (line 223)
ContinuePrefix ==
    <<"C", "o", "n", "t", "i", "n", "u", "e", " ", "w", "i", "t", "h", ":", " ">>

\* timeout=300 of subprocess.run (line 99)
LaunchTimeout == 300

(***************************************************************************)
(* Decimal formatting of a natural number, as str(n) writes it.            *)
(***************************************************************************)
DigitChars == <<"0", "1", "2", "3", "4", "5", "6", "7", "8", "9">>

RECURSIVE Decimal(_)
Decimal(n) ==
    IF n < 10 THEN <<DigitChars[n + 1]>>
    ELSE Decimal(n \div 10) \o <<DigitChars[(n % 10) + 1]>>

\* the timeout notice that names a duration of n seconds
TimeoutNotice(n) ==
    <<"C", "o", "m", "m", "a", "n", "d", " ", "t", "i", "m", "e", "d", " ",
      "o", "u", "t", " ", "a", "f", "t", "e", "r", " ">>
    \o Decimal(n) \o <<" ", "s", "e", "c", "o", "n", "d", "s">>

(***************************************************************************)
(* What the launched process does: the environment's choice.               *)
(*   exit0    zero exit status, text is the captured standard output       *)
(*   nonzero  CalledProcessError, text is the captured standard error      *)
(*   timeout  TimeoutExpired                                               *)
(*   oserror  any other exception, text is str(e)                          *)
(***************************************************************************)
RawStreams == {<<" ", "o", "k", "\n">>}

ProcessOutcomes ==
    {[kind |-> "exit0", text |-> t] : t \in RawStreams}
    \cup {[kind |-> "nonzero", text |-> t] : t \in RawStreams}
    \cup {[kind |-> "timeout", text |-> <<>>],
          [kind |-> "oserror", text |-> <<"x">>]}

\* the outcome recorded for a call that launches no process
NoProcess == [kind |-> "none", text |-> <<>>]

(***************************************************************************)
(* TerminalMind.execute_command (lines 83-109).  The result carries the    *)
(* returned pair (success, output), the command history after the call     *)
(* and the process launches made: (command line, timeout) pairs.           *)
(***************************************************************************)
\* the output returned when an exception is caught (lines 104-109)
failure_output_unstripped(oc) ==
    CASE oc.kind = "nonzero" -> ErrorPrefix \o oc.text
      [] oc.kind = "timeout" -> TimedOutMessage
      [] OTHER -> UnexpectedPrefix \o oc.text

failure_output(oc) ==
    CASE oc.kind = "nonzero" -> ErrorPrefix \o Strip(oc.text)
      [] oc.kind = "timeout" -> TimedOutMessage
      [] OTHER -> UnexpectedPrefix \o oc.text

\* self.command_history.append((command, output)) (line 102)
record_history_last_only(history, cmd, output) == <<<<cmd, output>>>>

record_history(history, cmd, output) == Append(history, <<cmd, output>>)

\* subprocess.run and what follows it (lines 93-109)
launch_command(cmd, oc, history) ==
    LET launch == <<[cmd |-> cmd, timeout |-> LaunchTimeout]>>
    IN  IF oc.kind = "exit0"
        THEN [success |-> TRUE, output |-> Strip(oc.text),
              history |-> record_history(history, cmd, Strip(oc.text)),
              launch |-> launch]
        ELSE [success |-> FALSE, output |-> failure_output(oc),
              history |-> history, launch |-> launch]

execute_command_unvalidated(command, oc, history) ==
    launch_command(sanitize_command(command), oc, history)

execute_command(command, oc, history) ==
    LET cmd == sanitize_command(command)
    IN  IF cmd = <<>>
        THEN [success |-> FALSE, output |-> EmptyCommandMessage,
              history |-> history, launch |-> <<>>]
        ELSE launch_command(cmd, oc, history)

(***************************************************************************)
(* The environment of a session.                                           *)
(***************************************************************************)
Cmd_ls == <<"l", "s">>
Cmd_pwd == <<"p", "w", "d">>

\* a command the sanitizer changes: l, backtick, s
Cmd_ticked == <<"l", Backtick, "s">>

\* what get_llm_response (lines 111-159) can return: None when the model
\* call raised, otherwise the extracted command, which may be empty, DONE,
\* or a text made of line breaks only
LlmResults == {None, <<>>, DONE, Cmd_ls, Cmd_ticked, <<"\n">>}

\* what Prompt.ask("Edit command", default=command) can return besides
\* the default
EditTexts == {<<>>, Cmd_pwd, <<Backtick>>}

\* what the user types at the top-level prompt
Task_go == <<"g", "o">>

RunInputs ==
    {<<>>, <<" ">>, Task_go,
     <<"e", "x", "i", "t">>, <<"E", "x", "i", "t">>,
     <<"c", "l", "e", "a", "r">>, <<"C", "L", "E", "A", "R">>,
     <<"h", "i", "s", "t", "o", "r", "y">>, <<"H", "i", "s", "t", "o", "r", "y">>}

UpperChars == <<"A", "B", "C", "D", "E", "F", "G", "H", "I", "J", "K", "L", "M", "N", "O", "P", "Q", "R", "S", "T", "U", "V", "W", "X", "Y", "Z">>
LowerChars == <<"a", "b", "c", "d", "e", "f", "g", "h", "i", "j", "k", "l", "m", "n", "o", "p", "q", "r", "s", "t", "u", "v", "w", "x", "y", "z">>

\* str.lower() of one character
LowerChar(c) ==
    IF \E i \in 1..Len(UpperChars) : UpperChars[i] = c
    THEN LowerChars[CHOOSE i \in 1..Len(UpperChars) : UpperChars[i] = c]
    ELSE c

Lower(s) == [i \in 1..Len(s) |-> LowerChar(s[i])]

(***************************************************************************)
(* State.                                                                  *)
(***************************************************************************)
VARIABLES
    interactive_mode,   \* self.interactive_mode
    command_history,    \* self.command_history: sequence of <<command, output>>
    context,            \* self.context: <<>> for {}, else <<the triple>>
    pc,                 \* where the control thread is
    user_input,         \* run: the input being handled (line 257)
    stack,              \* process_task frames: the user_input of each
    command,            \* process_task: the local variable command
    edited_command,     \* review_command: the local variable edited_command
    follow_up,          \* process_task: the local variable follow_up
    tasks,              \* top-level process_task calls made so far
    chainExecs,         \* execute_command calls of the current task chain
    chainFailed,        \* an execution of the current task chain failed
    accepted,           \* the string shown when the user last answered y
    rejected,           \* the user answered n at the first prompt
    review_arg,         \* the command the running review_command was called with
    lastExec,           \* <<>> or <<the last execute_command call>>
    chainLaunches,      \* processes launched in the current task chain
    chainLlm,           \* get_llm_response calls of the current task chain
    lastLlm,            \* <<>> or <<the last get_llm_response call>>
    succLog,            \* <<command run, output>> of every call that returned success
    arg,                \* pure-function specifications: the input
    res1,               \* pure-function specifications: the result
    res2,               \* pure-function specifications: the result on the result
    is_venv             \* self.environment_context['is_venv'] (line 78)

progVars == <<interactive_mode, command_history, context, pc, user_input,
              stack, command, edited_command, follow_up>>
ghostVars == <<tasks, chainExecs, chainFailed, accepted, rejected, review_arg,
               lastExec, chainLaunches, chainLlm, lastLlm, succLog>>
fnVars == <<arg, res1, res2, is_venv>>
vars == <<progVars, ghostVars, fnVars>>

\* TerminalMind.__init__ (lines 60-67), with run at its first prompt
InitSession ==
    /\ command_history = <<>>
    /\ context = <<>>
    /\ pc = "prompt"
    /\ user_input = None
    /\ stack = <<>>
    /\ command = None
    /\ edited_command = None
    /\ follow_up = None
    /\ tasks = 0
    /\ chainExecs = 0
    /\ chainFailed = FALSE
    /\ accepted = None
    /\ rejected = FALSE
    /\ review_arg = None
    /\ lastExec = <<>>
    /\ chainLaunches = 0
    /\ chainLlm = 0
    /\ lastLlm = <<>>
    /\ succLog = <<>>

Init ==
    /\ interactive_mode \in BOOLEAN
    /\ InitSession
    /\ arg = <<>> /\ res1 = None /\ res2 = None /\ is_venv = FALSE

(***************************************************************************)
(* TerminalMind.run (lines 255-279).                                       *)
(***************************************************************************)
\* user_input.lower() == word (lines 262, 266, 270)
is_keyword_case_sensitive(input, word) == input = word

is_keyword(input, word) == Lower(input) = word

\* one pass of the loop body: read an input (line 257) and dispatch on it
Run(inp) ==
    /\ pc = "prompt"
    /\ LET input == Strip(inp) IN
       IF \/ input = <<>>
          \/ is_keyword(input, <<"c", "l", "e", "a", "r">>)
          \/ is_keyword(input, <<"h", "i", "s", "t", "o", "r", "y">>)
       THEN UNCHANGED <<pc, user_input, stack, tasks, chainExecs, chainFailed,
                        chainLaunches, chainLlm, accepted, rejected>>
       ELSE IF is_keyword(input, <<"e", "x", "i", "t">>)
       THEN /\ pc' = "exited"
            /\ user_input' = input
            /\ UNCHANGED <<stack, tasks, chainExecs, chainFailed,
                           chainLaunches, chainLlm, accepted, rejected>>
       ELSE /\ tasks < MaxTasks
            /\ tasks' = tasks + 1
            /\ user_input' = input
            /\ stack' = <<input>>
            /\ pc' = "suggest"
            /\ chainExecs' = 0
            /\ chainFailed' = FALSE
            /\ chainLaunches' = 0
            /\ chainLlm' = 0
            /\ accepted' = None
            /\ rejected' = FALSE
    /\ UNCHANGED <<interactive_mode, command_history, context, command,
                   edited_command, follow_up, review_arg, lastExec, lastLlm,
                   succLog, fnVars>>

\* the places where the control thread blocks: the prompts, the model
\* call and the launched process
Blocking == {"prompt", "suggest", "review", "edit", "verify", "execute",
             "follow_up"}

\* every frame unwinds to a handler of run (lines 276-279), which prints a
\* line, and the loop goes on
Unwind ==
    /\ pc' = "prompt"
    /\ user_input' = None
    /\ stack' = <<>>
    /\ command' = None
    /\ edited_command' = None
    /\ follow_up' = None
    /\ review_arg' = None
    /\ UNCHANGED <<interactive_mode, command_history, context, tasks,
                   chainExecs, chainFailed, accepted, rejected, lastExec,
                   chainLaunches, chainLlm, lastLlm, succLog, fnVars>>

\* KeyboardInterrupt while blocked (lines 276-277)
Interrupt ==
    /\ pc \in Blocking
    /\ Unwind

\* an exception raised by Prompt.ask, which no inner handler catches
\* (lines 278-279)
PromptError ==
    /\ pc \in {"prompt", "review", "edit", "verify"}
    /\ Unwind

(***************************************************************************)
(* TerminalMind.review_command (lines 161-184), and what process_task      *)
(* does with its result (lines 195-198).                                   *)
(***************************************************************************)
\* the value returned when the edited command is accepted (line 182)
accept_edited_returns_original(cmd, edited) == cmd

accept_edited(cmd, edited) == edited

\* the command offered again after the edited one is refused: continue
\* leaves command as it was (lines 183-184, 163-165)
offer_edited_again(cmd, edited) == edited

offer_again(cmd, edited) == cmd

\* process_task, lines 195-201, on the value review_command returned
AfterReview(returned) ==
    /\ command' = returned
    /\ review_arg' = None
    /\ IF Truthy(returned)
       THEN pc' = "execute"
       ELSE pc' = "return"

\* the first prompt: y, n or edit (lines 164-175)
ReviewChoice(choice) ==
    /\ pc = "review"
    /\ CASE choice = "y" ->
              /\ accepted' = command
              /\ AfterReview(command)
              /\ UNCHANGED <<rejected, edited_command>>
         [] choice = "n" ->
              /\ rejected' = TRUE
              /\ AfterReview(None)
              /\ UNCHANGED <<accepted, edited_command>>
         [] OTHER ->
              /\ pc' = "edit"
              /\ UNCHANGED <<command, accepted, rejected, review_arg,
                             edited_command>>
    /\ UNCHANGED <<interactive_mode, command_history, context, user_input,
                   stack, follow_up, tasks, chainExecs, chainFailed, lastExec,
                   chainLaunches, chainLlm, lastLlm, succLog, fnVars>>

\* Prompt.ask("Edit command", default=command) (line 175)
EditCommand(text) ==
    /\ pc = "edit"
    /\ edited_command' = text
    /\ pc' = "verify"
    /\ UNCHANGED <<interactive_mode, command_history, context, user_input,
                   stack, command, follow_up, ghostVars, fnVars>>

\* the confirmation of the edited command: y or n (lines 176-184)
VerifyEdited(verify) ==
    /\ pc = "verify"
    /\ IF verify = "y"
       THEN /\ accepted' = edited_command
            /\ AfterReview(accept_edited(command, edited_command))
            /\ UNCHANGED <<rejected, edited_command>>
       ELSE /\ pc' = "review"
            /\ command' = offer_again(command, edited_command)
            /\ UNCHANGED <<accepted, rejected, review_arg, edited_command>>
    /\ UNCHANGED <<interactive_mode, command_history, context, user_input,
                   stack, follow_up, tasks, chainExecs, chainFailed, lastExec,
                   chainLaunches, chainLlm, lastLlm, succLog, fnVars>>

(***************************************************************************)
(* TerminalMind.process_task (lines 186-230).                              *)
(***************************************************************************)
\* the user_input of the running frame
Frame == stack[Len(stack)]

\* not (not command) (line 190)
usable_unless_none(cmd) == cmd # None

usable(cmd) == Truthy(cmd)

\* lines 189-198: the initial suggestion, made with self.context
Suggest(r) ==
    /\ pc = "suggest"
    /\ chainLlm' = chainLlm + 1
    /\ lastLlm' = <<[kind |-> "initial", task |-> Frame,
                     attached |-> TRUE, context |-> context]>>
    /\ command' = r
    /\ follow_up' = None
    /\ accepted' = None
    /\ rejected' = FALSE
    /\ IF ~usable(r)
       THEN pc' = "return" /\ review_arg' = None
       ELSE IF interactive_mode
       THEN pc' = "review" /\ review_arg' = r
       ELSE pc' = "execute" /\ review_arg' = None
    /\ UNCHANGED <<interactive_mode, command_history, context, user_input,
                   stack, edited_command, tasks, chainExecs, chainFailed,
                   lastExec, chainLaunches, succLog, fnVars>>

\* where process_task goes after execute_command (lines 204, 224)
after_execute_always_follows_up(success) == "follow_up"

after_execute(success) == IF success THEN "follow_up" ELSE "return"

\* the context written after execute_command (lines 209-213, 226-230)
new_context_with_run_command(cmd, output, success) ==
    <<[last_command |-> sanitize_command(cmd), last_output |-> output,
       success |-> success]>>

new_context(cmd, output, success) ==
    <<[last_command |-> cmd, last_output |-> output, success |-> success]>>

\* lines 202-213 and 224-230: execute the command, overwrite the context
Execute(oc) ==
    /\ pc = "execute"
    /\ LET r == execute_command(command, oc, command_history) IN
        /\ command_history' = r.history
        /\ context' = new_context(command, r.output, r.success)
        /\ pc' = after_execute(r.success)
        /\ chainExecs' = chainExecs + 1
        /\ chainFailed' = (chainFailed \/ ~r.success)
        /\ chainLaunches' = chainLaunches + Len(r.launch)
        /\ lastExec' = <<[arg |-> command,
                          oc |-> IF r.launch = <<>> THEN NoProcess ELSE oc,
                          launch |-> r.launch,
                          success |-> r.success, output |-> r.output]>>
        /\ succLog' = IF r.success
                      THEN Append(succLog, <<r.launch[1].cmd, r.output>>)
                      ELSE succLog
    /\ UNCHANGED <<interactive_mode, user_input, stack, command,
                   edited_command, follow_up, tasks, accepted, rejected,
                   review_arg, chainLlm, lastLlm, fnVars>>

\* follow_up and follow_up != "DONE" (line 221)
continues_on_done(reply) == Truthy(reply)

continues(reply) == Truthy(reply) /\ reply # DONE

\* the context argument of the follow-up call: none is passed (lines 216-219)
follow_up_context_attached(ctx) == [attached |-> TRUE, context |-> ctx]

follow_up_context(ctx) == [attached |-> FALSE, context |-> <<>>]

\* lines 216-223: the follow-up question, asked without a context, and the
\* recursive call.  The environment lets a chain reach MaxChain executions.
FollowUp(r) ==
    /\ pc = "follow_up"
    /\ (Truthy(r) /\ r # DONE) => chainExecs < MaxChain
    /\ chainLlm' = chainLlm + 1
    /\ lastLlm' = <<[kind |-> "follow_up", task |-> Frame,
                     attached |-> follow_up_context(context).attached,
                     context |-> follow_up_context(context).context]>>
    /\ follow_up' = r
    /\ IF continues(r)
       THEN /\ stack' = Append(stack, ContinuePrefix \o r)
            /\ pc' = "suggest"
       ELSE /\ pc' = "return"
            /\ UNCHANGED stack
    /\ UNCHANGED <<interactive_mode, command_history, context, user_input,
                   command, edited_command, tasks, chainExecs, chainFailed,
                   accepted, rejected, review_arg, lastExec, chainLaunches,
                   succLog, fnVars>>

\* a frame of process_task returns: to its caller at line 223, which
\* returns in turn, or to the loop of run
Return ==
    /\ pc = "return"
    /\ stack' = SubSeq(stack, 1, Len(stack) - 1)
    /\ pc' = IF Len(stack) = 1 THEN "prompt" ELSE "return"
    /\ user_input' = IF Len(stack) = 1 THEN None ELSE user_input
    /\ command' = None
    /\ edited_command' = None
    /\ follow_up' = None
    /\ UNCHANGED <<interactive_mode, command_history, context, ghostVars,
                   fnVars>>

Next ==
    \/ \E inp \in RunInputs : Run(inp)
    \/ Interrupt
    \/ PromptError
    \/ \E r \in LlmResults : Suggest(r)
    \/ \E choice \in {"y", "n", "edit"} : ReviewChoice(choice)
    \/ \E text \in EditTexts \cup {command} : EditCommand(text)
    \/ \E verify \in {"y", "n"} : VerifyEdited(verify)
    \/ \E oc \in ProcessOutcomes : Execute(oc)
    \/ \E r \in LlmResults : FollowUp(r)
    \/ Return

Spec == Init /\ [][Next]_vars

(***************************************************************************)
(* The sanitizer on its own: every string of at most MaxLen characters is  *)
(* sanitized, and the result is sanitized again.                           *)
(***************************************************************************)
InitSanitize ==
    /\ interactive_mode = FALSE
    /\ InitSession
    /\ arg \in Strings /\ res1 = None /\ res2 = None /\ is_venv = FALSE

SanitizeOnce ==
    /\ res1 = None
    /\ res1' = sanitize_command(arg)
    /\ UNCHANGED <<progVars, ghostVars, arg, res2, is_venv>>

SanitizeAgain ==
    /\ res1 # None /\ res2 = None
    /\ res2' = sanitize_command(res1)
    /\ UNCHANGED <<progVars, ghostVars, arg, res1, is_venv>>

NextSanitize == SanitizeOnce \/ SanitizeAgain

SpecSanitize == InitSanitize /\ [][NextSanitize]_vars

(***************************************************************************)
(* Properties.                                                             *)
(***************************************************************************)
\* a step in which process_task calls execute_command
ExecStep == chainExecs' = chainExecs + 1

\* a step in which get_llm_response is called
LlmStep == chainLlm' = chainLlm + 1

IsPrefix(s, t) == Len(s) <= Len(t) /\ SubSeq(t, 1, Len(s)) = s

\* C1: with interactive review enabled, execute_command is called only
\* after the user answered y in review_command, and its argument is the
\* string shown at that answer (the original or the edited command); after
\* n at the first prompt nothing is executed and the context and the
\* command history stay as they were.
C1_ReviewGate ==
    [][/\ (interactive_mode /\ ExecStep) =>
             /\ accepted # None
             /\ lastExec'[1].arg = accepted
       /\ rejected' =>
             /\ chainExecs' = chainExecs
             /\ context' = context
             /\ command_history' = command_history]_vars

\* C1 witness: an edited command was accepted and executed, and the
\* command suggested next was rejected at the first prompt
C1_Witness ==
    /\ interactive_mode
    /\ rejected
    /\ pc = "return"
    /\ lastExec # <<>>
    /\ lastExec[1].arg = Cmd_pwd

\* C2 (as claimed): the output of sanitize_command contains no "$(", no
\* backtick and no newline.
C2_NoShellSubstitution ==
    res1 # None =>
        /\ ~Contains(res1, <<"$", "(">>)
        /\ ~Contains(res1, <<Backtick>>)
        /\ ~Contains(res1, <<"\n">>)

\* C3 (as claimed): sanitize_command(sanitize_command(x)) equals
\* sanitize_command(x).
C3_Idempotent == res2 # None => res2 = res1

\* C4: once an execution of a task chain has failed, the chain makes no
\* further model call and no further execution; a follow-up call is made
\* only right after a successful execution.
C4_NoFollowUpAfterFailure ==
    [][/\ (chainFailed /\ chainFailed') =>
             /\ chainLlm' = chainLlm
             /\ chainExecs' = chainExecs
       /\ (LlmStep /\ lastLlm'[1].kind = "follow_up") =>
             /\ lastExec # <<>>
             /\ lastExec[1].success
             /\ ~chainFailed
       /\ (LlmStep /\ chainExecs > 0) => lastExec[1].success]_vars

\* C4 witness: the second execution of a chain failed and the task ended
C4_Witness ==
    /\ chainFailed
    /\ chainExecs = 2
    /\ pc = "prompt"
    /\ lastLlm[1].kind = "initial"

\* C5 (as claimed): the program itself ends a chain after a fixed number of
\* executions: a chain never uses up the MaxChain executions the
\* environment lets it reach, however large MaxChain is.
C5_BoundedDepth == chainExecs < MaxChain

\* C6: the command history is the list of <<command run, output>> of the
\* executions that returned success, in order, one entry each; it changes
\* only by one entry appended in a successful execution.
C6_HistoryAppendOnly ==
    /\ [](command_history = succLog)
    /\ [][/\ IsPrefix(command_history, command_history')
          /\ command_history' # command_history =>
                /\ ExecStep
                /\ lastExec'[1].success
                /\ Len(command_history') = Len(command_history) + 1
          /\ (ExecStep /\ ~lastExec'[1].success) =>
                command_history' = command_history]_vars

\* C6 witness: a success that was recorded, then a timed-out command that
\* was not
C6_Witness ==
    /\ Len(command_history) = 1
    /\ chainExecs = 2
    /\ lastExec # <<>>
    /\ ~lastExec[1].success
    /\ lastExec[1].oc.kind = "timeout"

\* C7: the context is empty before the first execution, and afterwards
\* holds the command passed to execute_command, the returned output and
\* the returned success flag of the most recent execution.
C7_ContextIsLastExecution ==
    context = IF lastExec = <<>> THEN <<>>
              ELSE <<[last_command |-> lastExec[1].arg,
                      last_output |-> lastExec[1].output,
                      success |-> lastExec[1].success]>>

\* C7 witness: a failed execution of a command the sanitizer changes,
\* after an earlier success
C7_Witness ==
    /\ lastExec # <<>>
    /\ lastExec[1].arg = Cmd_ticked
    /\ ~lastExec[1].success
    /\ command_history # <<>>

\* C8: a command that is empty after sanitize_command makes execute_command
\* return (False, "Empty command"), launch no process and leave the
\* command history unchanged.
C8_EmptyCommand ==
    [][(ExecStep /\ sanitize_command(command) = <<>>) =>
            /\ ~lastExec'[1].success
            /\ lastExec'[1].output = EmptyCommandMessage
            /\ chainLaunches' = chainLaunches
            /\ command_history' = command_history]_vars

\* C8 witness: a non-empty command that is empty after sanitizing was
\* passed to execute_command
C8_Witness ==
    /\ lastExec # <<>>
    /\ lastExec[1].arg # <<>>
    /\ sanitize_command(lastExec[1].arg) = <<>>
    /\ lastExec[1].output = EmptyCommandMessage

\* C9 (as claimed): when the launched command times out, execute_command
\* returns failure with the notice that names the timeout passed to the
\* launch.
C9_TimeoutReported ==
    (lastExec # <<>> /\ lastExec[1].oc.kind = "timeout") =>
        /\ ~lastExec[1].success
        /\ lastExec[1].output = TimeoutNotice(lastExec[1].launch[1].timeout)

\* C10 (as claimed): on a nonzero exit status execute_command returns
\* failure and the trimmed standard error, nothing added.
C10_StderrOnly ==
    (lastExec # <<>> /\ lastExec[1].oc.kind = "nonzero") =>
        /\ ~lastExec[1].success
        /\ lastExec[1].output = Strip(lastExec[1].oc.text)

\* C10 (amended): on a nonzero exit status execute_command returns failure
\* and "Error: " followed by the trimmed standard error.
C10_PrefixedStderr ==
    (lastExec # <<>> /\ lastExec[1].oc.kind = "nonzero") =>
        /\ ~lastExec[1].success
        /\ lastExec[1].output = ErrorPrefix \o Strip(lastExec[1].oc.text)

\* C10 witness: a command exited with a nonzero status and a standard
\* error that has surrounding whitespace
C10_Witness ==
    /\ lastExec # <<>>
    /\ lastExec[1].oc.kind = "nonzero"
    /\ Strip(lastExec[1].oc.text) # lastExec[1].oc.text

\* the control thread is inside review_command
InReview == pc \in {"review", "edit", "verify"}

\* C11: refusing an edited command leads back to the first prompt, where
\* the command review_command was called with is offered again; and
\* review_command returns in three ways only: y at the first prompt returns
\* that command, n at the first prompt returns None, y at the confirmation
\* returns the edited string.
C11_ReviewLoop ==
    [][/\ (pc = "verify" /\ pc' = "review") =>
             /\ review_arg' = review_arg
             /\ command' = review_arg
       /\ pc' = "review" => command' = review_arg'
       /\ (InReview /\ pc' \in {"execute", "return"}) =>
             \/ pc = "review" /\ ~rejected' /\ accepted' = review_arg
                  /\ command' = review_arg
             \/ pc = "review" /\ rejected' /\ command' = None
             \/ pc = "verify" /\ accepted' = edited_command
                  /\ command' = edited_command]_vars

\* C11 witness: back at the first prompt after an edited command was
\* refused, with the original command offered
C11_Witness ==
    /\ pc = "review"
    /\ edited_command = Cmd_pwd
    /\ command = Cmd_ls
    /\ review_arg = Cmd_ls

\* C15: when the follow-up reply is DONE, empty or None, process_task
\* returns and the chain makes no further model call or execution;
\* otherwise it calls itself once with "Continue with: " and the reply.
C15_StopsOnDone ==
    [][/\ (pc = "follow_up" /\ LlmStep) =>
             IF follow_up' \in {DONE, <<>>, None}
             THEN pc' = "return" /\ stack' = stack
             ELSE /\ pc' = "suggest"
                  /\ stack' = Append(stack, ContinuePrefix \o follow_up')
       /\ pc = "return" =>
             /\ chainLlm' = chainLlm
             /\ chainExecs' = chainExecs]_vars

\* C15 witness: a chain that continued once and then stopped on DONE
C15_Witness ==
    /\ pc = "return"
    /\ follow_up = DONE
    /\ Len(stack) = 2
    /\ stack[2] = ContinuePrefix \o Cmd_ls

\* C16: when the initial suggestion of a task is None or the empty string,
\* process_task returns without an execution and leaves the context and the
\* command history as they were.
C16_NoCandidate ==
    [][/\ (pc = "suggest" /\ LlmStep /\ command' \in {None, <<>>}) =>
             /\ pc' = "return"
             /\ chainExecs' = chainExecs
             /\ context' = context
             /\ command_history' = command_history
       /\ pc = "return" =>
             /\ chainExecs' = chainExecs
             /\ context' = context
             /\ command_history' = command_history]_vars

\* C16 witness: a "Continue with" task whose suggestion was the empty
\* string, after an execution that filled the context
C16_Witness ==
    /\ pc = "return"
    /\ command = <<>>
    /\ accepted = None
    /\ Len(stack) = 2
    /\ lastLlm[1].kind = "initial"
    /\ context # <<>>

\* C17: a successful execution leaves the context holding success = true
\* and the trimmed standard output, and the next thing process_task does is
\* one follow-up model call, made without a context (unless an interrupt
\* ends the task first); every initial suggestion call is made with the
\* context of that moment.
C17_FollowUpCall ==
    [][/\ (ExecStep /\ lastExec'[1].success) =>
             /\ pc' = "follow_up"
             /\ context'[1].success
             /\ context'[1].last_output = Strip(lastExec'[1].oc.text)
       /\ (pc = "follow_up" /\ pc' # "follow_up") =>
             \/ pc' = "prompt" /\ ~LlmStep
             \/ /\ LlmStep
                /\ lastLlm'[1].kind = "follow_up"
                /\ ~lastLlm'[1].attached
                /\ lastLlm'[1].context = <<>>
                /\ context' = context
       /\ (LlmStep /\ pc # "follow_up") =>
             /\ pc = "suggest"
             /\ lastLlm'[1].kind = "initial"
             /\ lastLlm'[1].attached
             /\ lastLlm'[1].context = context]_vars

\* C17 witness: the initial call of a "Continue with" task, made with the
\* context of the successful execution before it
C17_Witness ==
    /\ Len(stack) = 2
    /\ lastLlm # <<>>
    /\ lastLlm[1].kind = "initial"
    /\ lastLlm[1].context # <<>>
    /\ lastLlm[1].context[1].success
    /\ chainLlm = 3

\* C19 (as claimed): after a successful execution the command in the
\* context is the command of the newest history entry.
C19_SameCommandRecorded ==
    (lastExec # <<>> /\ lastExec[1].success) =>
        context[1].last_command = command_history[Len(command_history)][1]

\* C20: an input that is empty or is exit, clear or history in any letter
\* case never starts a task; the loop ends only on exit, read at the prompt,
\* so an interrupt or an exception while an input is handled does not end
\* the session.
C20_RunLoop ==
    [][/\ (stack = <<>> /\ stack' # <<>>) =>
             /\ pc = "prompt"
             /\ stack' = <<user_input'>>
             /\ user_input' # <<>>
             /\ Lower(user_input') \notin
                    {<<"e", "x", "i", "t">>, <<"c", "l", "e", "a", "r">>,
                     <<"h", "i", "s", "t", "o", "r", "y">>}
       /\ (pc # "exited" /\ pc' = "exited") =>
             /\ pc = "prompt"
             /\ Lower(user_input') = <<"e", "x", "i", "t">>
       /\ (pc \notin {"prompt", "exited"}) => pc' # "exited"]_vars

\* C20 witness: the session ended on Exit after a task was handled
C20_Witness ==
    /\ pc = "exited"
    /\ user_input = <<"E", "x", "i", "t">>
    /\ tasks = 1
    /\ lastExec # <<>>

(***************************************************************************)
(* CommandProcessor.is_package_installation_command (lines 46-56) and the  *)
(* rewrite of an installation command in get_llm_response (lines 148-153). *)
(***************************************************************************)
\* most words of an input command of the rewrite specification
MaxWords == 5

Word_pip == <<"p", "i", "p">>
Word_python == <<"p", "y", "t", "h", "o", "n">>
Word_m == <<"-", "m">>
Word_install == <<"i", "n", "s", "t", "a", "l", "l">>
Word_apt == <<"a", "p", "t">>
Word_apt_get == <<"a", "p", "t", "-", "g", "e", "t">>
Word_conda == <<"c", "o", "n", "d", "a">>
Word_numpy == <<"n", "u", "m", "p", "y">>

\* "pip install --upgrade " (line 151)
PipUpgrade == <<"p", "i", "p", " ", "i", "n", "s", "t", "a", "l", "l", " ", "-", "-", "u", "p", "g", "r", "a", "d", "e", " ">>

\* "python -m pip install --upgrade " (line 153)
PythonPipUpgrade == <<"p", "y", "t", "h", "o", "n", " ", "-", "m", " ", "p", "i", "p", " ", "i", "n", "s", "t", "a", "l", "l", " ", "-", "-", "u", "p", "g", "r", "a", "d", "e", " ">>

StartsWith(s, p) == Len(s) >= Len(p) /\ SubSeq(s, 1, Len(p)) = p

\* re.match of a pattern ^w1\s+w2\s+...wn, given as the words w1..wn
RECURSIVE MatchWords(_, _)
MatchWords(s, words) ==
    \/ words = <<>>
    \/ /\ StartsWith(s, Head(words))
       /\ \/ Len(words) = 1
          \/ LET rest == SubSeq(s, Len(Head(words)) + 1, Len(s))
             IN  /\ rest # <<>>
                 /\ rest[1] \in Whitespace
                 /\ MatchWords(LStrip(rest, Whitespace), Tail(words))

\* install_patterns (lines 49-55)
install_patterns ==
    {<<Word_pip, Word_install>>,
     <<Word_python, Word_m, Word_pip, Word_install>>,
     <<Word_apt, Word_install>>,
     <<Word_apt_get, Word_install>>,
     <<Word_conda, Word_install>>}

is_package_installation_command(cmd) ==
    \E pattern \in install_patterns : MatchWords(cmd, pattern)

\* the first word of s: its characters up to the first whitespace
RECURSIVE FirstWord(_)
FirstWord(s) ==
    IF s = <<>> \/ s[1] \in Whitespace THEN <<>>
    ELSE <<s[1]>> \o FirstWord(Tail(s))

\* str.split(): the words between runs of whitespace
RECURSIVE Split(_)
Split(s) ==
    LET t == LStrip(s, Whitespace)
    IN  IF t = <<>> THEN <<>>
        ELSE <<FirstWord(t)>>
             \o Split(SubSeq(t, Len(FirstWord(t)) + 1, Len(t)))

\* ' '.join(words)
RECURSIVE Join(_)
Join(words) ==
    IF words = <<>> THEN <<>>
    ELSE IF Len(words) = 1 THEN words[1]
    ELSE words[1] \o <<" ">> \o Join(Tail(words))

\* lines 148-155: the command get_llm_response returns for the extracted one
rewrite_install(cmd, venv) ==
    IF is_package_installation_command(cmd)
    THEN (IF venv THEN PipUpgrade ELSE PythonPipUpgrade)
         \o Join(SubSeq(Split(cmd), 3, Len(Split(cmd))))
    ELSE cmd

\* the input commands: up to max words, one or two spaces apart
InstallWords ==
    {Word_pip, Word_python, Word_m, Word_install, Word_apt, Word_apt_get,
     Word_conda, Word_numpy}

RECURSIVE JoinWith(_, _)
JoinWith(words, sep) ==
    IF words = <<>> THEN <<>>
    ELSE IF Len(words) = 1 THEN words[1]
    ELSE words[1] \o sep \o JoinWith(Tail(words), sep)

RECURSIVE WordLists(_)
WordLists(n) ==
    IF n = 0 THEN {<<>>}
    ELSE {<<w>> \o l : w \in InstallWords, l \in WordLists(n - 1)}

InstallInputs(max) ==
    {JoinWith(l, sep) : l \in UNION {WordLists(n) : n \in 0..max},
                        sep \in {<<" ">>, <<" ", " ">>}}

InitInstall ==
    /\ interactive_mode = FALSE
    /\ InitSession
    /\ arg \in InstallInputs(MaxWords) /\ res1 = None /\ res2 = None
    /\ is_venv \in BOOLEAN

RewriteInstall ==
    /\ res1 = None
    /\ res1' = rewrite_install(arg, is_venv)
    /\ UNCHANGED <<progVars, ghostVars, arg, res2, is_venv>>

NextInstall == RewriteInstall

SpecInstall == InitInstall /\ [][NextInstall]_vars

\* the words of cmd that follow its first word install
ArgsAfterInstall(cmd) ==
    LET words == Split(cmd)
        i == CHOOSE k \in 1..Len(words) :
                 /\ words[k] = Word_install
                 /\ \A j \in 1..(k - 1) : words[j] # Word_install
    IN  SubSeq(words, i + 1, Len(words))

\* C12 (as claimed): a command accepted by is_package_installation_command
\* is rebuilt as "pip install --upgrade " (is_venv) or "python -m pip
\* install --upgrade " (otherwise) followed by the arguments that came
\* after install, in order.
C12_InstallRewrite ==
    (res1 # None /\ is_package_installation_command(arg)) =>
        res1 = (IF is_venv THEN PipUpgrade ELSE PythonPipUpgrade)
               \o Join(ArgsAfterInstall(arg))

(***************************************************************************)
(* extract_command: the command taken out of the text the model returned.  *)
(***************************************************************************)
Drop(s, n) == SubSeq(s, n + 1, Len(s))

\* s begins with p, letter case ignored (re.IGNORECASE)
StartsWithCI(s, p) == Len(s) >= Len(p) /\ Lower(SubSeq(s, 1, Len(p))) = Lower(p)

\* 1-based index of the first occurrence of lit in s, case ignored; 0 if none
IndexOfCI(s, lit) ==
    LET hits == {i \in 1..(Len(s) + 1) : StartsWithCI(Drop(s, i - 1), lit)}
    IN  IF hits = {} THEN 0 ELSE CHOOSE i \in hits : \A j \in hits : i <= j

Fence == <<Backtick, Backtick, Backtick>>
Tag_bash == <<"b", "a", "s", "h">>
Tag_shell == <<"s", "h", "e", "l", "l">>

\* (?:bash|shell)?\n? after an opening fence: the text left once the
\* optional tag and the optional newline are consumed
AfterOpen(s) ==
    LET t == IF StartsWith(s, Tag_bash) THEN Drop(s, Len(Tag_bash))
             ELSE IF StartsWith(s, Tag_shell) THEN Drop(s, Len(Tag_shell))
             ELSE s
    IN  IF StartsWith(t, <<"\n">>) THEN Tail(t) ELSE t

\* (.*?)\n?``` : length of the shortest group after which the closing
\* fence, with or without a newline before it, follows; -1 if none does
GroupLen(s) ==
    LET ends == {n \in 0..Len(s) :
                    \/ StartsWith(Drop(s, n), Fence)
                    \/ StartsWith(Drop(s, n), <<"\n">> \o Fence)}
    IN  IF ends = {} THEN 0 - 1 ELSE CHOOSE n \in ends : \A m \in ends : n <= m

\* re.sub(r'```(?:bash|shell)?\n?(.*?)\n?```', r'\1', s, flags=re.DOTALL)
RECURSIVE strip_fences(_)
strip_fences(s) ==
    IF s = <<>> THEN s
    ELSE IF StartsWith(s, Fence) /\ GroupLen(AfterOpen(Drop(s, 3))) >= 0
    THEN LET body == AfterOpen(Drop(s, 3))
             n == GroupLen(body)
             close == Drop(body, n)
             rest == IF StartsWith(close, Fence) THEN Drop(close, 3)
                     ELSE Drop(close, 4)
         IN  SubSeq(body, 1, n) \o strip_fences(rest)
    ELSE <<s[1]>> \o strip_fences(Tail(s))

Lit_Sure == <<"S", "u", "r", "e", "!">>
Lit_following_command == <<"f", "o", "l", "l", "o", "w", "i", "n", "g", " ", "c", "o", "m", "m", "a", "n", "d">>
Lit_Here == <<"H", "e", "r", "e">>
Lit_command == <<"c", "o", "m", "m", "a", "n", "d">>
Lit_I_can_help == <<"I", " ", "c", "a", "n", " ", "h", "e", "l", "p">>
Lit_Please == <<"P", "l", "e", "a", "s", "e">>

\* re.sub(head + r'.*?' + tail + r'[s]?:?\s*', '', s, DOTALL|IGNORECASE)
RECURSIVE remove_lead_in(_, _, _)
remove_lead_in(s, head, tail) ==
    IF s = <<>> THEN s
    ELSE IF StartsWithCI(s, head) /\ IndexOfCI(Drop(s, Len(head)), tail) > 0
    THEN LET after == Drop(s, Len(head))
             r1 == Drop(after, IndexOfCI(after, tail) - 1 + Len(tail))
             r2 == IF StartsWithCI(r1, <<"s">>) THEN Tail(r1) ELSE r1
             r3 == IF StartsWith(r2, <<":">>) THEN Tail(r2) ELSE r2
         IN  remove_lead_in(LStrip(r3, Whitespace), head, tail)
    ELSE <<s[1]>> \o remove_lead_in(Tail(s), head, tail)

\* re.sub(head + r'.*?\s*', '', s, DOTALL|IGNORECASE): the lazy .*? with
\* nothing required after it matches the empty text
RECURSIVE remove_phrase(_, _)
remove_phrase(s, head) ==
    IF s = <<>> THEN s
    ELSE IF StartsWithCI(s, head)
    THEN remove_phrase(LStrip(Drop(s, Len(head)), Whitespace), head)
    ELSE <<s[1]>> \o remove_phrase(Tail(s), head)

\* str.split('\n')
RECURSIVE SplitLines(_)
SplitLines(s) ==
    IF ~Contains(s, <<"\n">>) THEN <<s>>
    ELSE LET i == CHOOSE k \in 1..Len(s) :
                      s[k] = "\n" /\ \A j \in 1..(k - 1) : s[j] # "\n"
         IN  <<SubSeq(s, 1, i - 1)>> \o SplitLines(Drop(s, i))

\* the test a stripped line passes to be taken as the command
looks_like_command(line) ==
    /\ line # <<>>
    /\ ~StartsWith(line, <<"#">>)
    /\ ~StartsWith(line, <<"/", "/">>)
    /\ ~Contains(line, <<":">>)

\* re.sub(r'^\d+\.\s*', '', line)
remove_list_number(line) ==
    LET digits == {DigitChars[i] : i \in 1..Len(DigitChars)}
        t == LStrip(line, digits)
    IN  IF Len(t) < Len(line) /\ StartsWith(t, <<".">>)
        THEN LStrip(Tail(t), Whitespace)
        ELSE line

StripSet == {Backtick, "$", " "}

extract_command(llm_response) ==
    LET text == remove_phrase(remove_phrase(
                    remove_lead_in(remove_lead_in(strip_fences(llm_response),
                        Lit_Sure, Lit_following_command),
                        Lit_Here, Lit_command),
                    Lit_I_can_help), Lit_Please)
        lines == SplitLines(text)
        ok == {i \in 1..Len(lines) : looks_like_command(Strip(lines[i]))}
        picked == IF ok = {} THEN text
                  ELSE remove_list_number(
                           Strip(lines[CHOOSE i \in ok : \A j \in ok : i <= j]))
    IN  StripChars(picked, StripSet)

\* replies of the model that wrap the command in a fenced block
FenceTags == {<<>>, Tag_bash, Tag_shell, <<"s", "h">>, <<"p", "y", "t", "h", "o", "n">>}
FenceInners == {<<"l", "s">>, <<"#", " ", "c", "\n", "l", "s">>, <<"a", ":", " ", "b", "\n", "l", "s">>, <<" ", " ", "l", "s">>, <<"1", ".", " ", "l", "s">>}
Fenced(tag, inner, nl) == Fence \o tag \o <<"\n">> \o inner \o nl \o Fence
FencedTexts ==
    {Fenced(tag, inner, nl) :
        tag \in FenceTags, inner \in FenceInners, nl \in {<<>>, <<"\n">>}}

\* replies that open with a conversational lead-in before the command
Preambles == {<<"S", "u", "r", "e", "!", " ", "U", "s", "e", " ", "t", "h", "e", " ", "f", "o", "l", "l", "o", "w", "i", "n", "g", " ", "c", "o", "m", "m", "a", "n", "d", ":">>, <<"H", "e", "r", "e", " ", "i", "s", " ", "t", "h", "e", " ", "c", "o", "m", "m", "a", "n", "d", ":">>,
              <<"h", "e", "r", "e", " ", "a", "r", "e", " ", "t", "h", "e", " ", "c", "o", "m", "m", "a", "n", "d", "s", ":">>, <<"I", " ", "c", "a", "n", " ", "h", "e", "l", "p", " ", "y", "o", "u">>, <<"P", "l", "e", "a", "s", "e", " ", "r", "u", "n">>}
Separators == {<<" ">>, <<"\n">>}
WithPreamble(pre, sep, cmd) == pre \o sep \o cmd
PreambleTexts ==
    {WithPreamble(pre, sep, <<"l", "s">>) : pre \in Preambles, sep \in Separators}

ExtractInputs == FencedTexts \cup PreambleTexts \cup Strings

InitExtract ==
    /\ interactive_mode = FALSE
    /\ InitSession
    /\ arg \in ExtractInputs /\ res1 = None /\ res2 = None
    /\ is_venv = FALSE

ExtractOnce ==
    /\ res1 = None
    /\ res1' = extract_command(arg)
    /\ UNCHANGED <<progVars, ghostVars, arg, res2, is_venv>>

NextExtract == ExtractOnce

SpecExtract == InitExtract /\ [][NextExtract]_vars

\* the first line of a block that passes the command test, stripped
FirstCommandLine(inner) ==
    LET lines == SplitLines(inner)
        ok == {i \in 1..Len(lines) : looks_like_command(Strip(lines[i]))}
    IN  Strip(lines[CHOOSE i \in ok : \A j \in ok : i <= j])

\* C13: for a reply that is a fenced block, with or without a language tag,
\* the extracted command holds neither the fence markers nor the tag: it is
\* the first line inside the block that looks like a command.
C13_FenceAndTagRemoved ==
    \A tag \in FenceTags, inner \in FenceInners, nl \in {<<>>, <<"\n">>} :
        (res1 # None /\ arg = Fenced(tag, inner, nl)) =>
            /\ ~Contains(res1, Fence)
            /\ tag # <<>> => ~Contains(res1, tag)
            /\ res1 = remove_list_number(FirstCommandLine(inner))

\* C14: for a reply that opens with one of the known conversational lead-ins
\* and then gives the command, the extracted command holds no word of the
\* lead-in.
C14_PreambleRemoved ==
    \A pre \in Preambles, sep \in Separators :
        (res1 # None /\ arg = WithPreamble(pre, sep, <<"l", "s">>)) =>
            \A i \in 1..Len(Split(pre)) : ~Contains(res1, Split(pre)[i])

\* C18: the extracted command has no backtick, dollar sign or whitespace
\* character at either end.
C18_NoSurroundingCharacters ==
    res1 # None =>
        \/ res1 = <<>>
        \/ /\ res1[1] \notin StripSet \cup Whitespace
           /\ res1[Len(res1)] \notin StripSet \cup Whitespace

====
